---- MODULE Spec2Model ----
(***************************************************************************)
(* Slowly changing dimension engine of pyscd (pyscd/dimension.py).         *)
(*                                                                         *)
(* The persisted dimension is the sequence `table` of rows, in storage     *)
(* order (the row coordinate is the position); `stored` tells whether the  *)
(* store has the table at all.  One engine object                          *)
(* (SlowlyChangingDimension) is alive at a time; constructing a new engine *)
(* replaces it.  A dimension row has one lookup attribute "k" and the two  *)
(* tracked attributes "a" and "b"; the engine's type1atts / type2atts      *)
(* split {"a","b"}.  Attribute values are strings.  SHA-1 is taken to be   *)
(* injective, so a digest is represented by the byte string it was fed:    *)
(* the concatenation, without separator, of the attributes' str() forms.   *)
(***************************************************************************)
EXTENDS Integers, Sequences, FiniteSets, TLC

\* ------------------------------------------------------------------ bounds
MaxRows == 3    \* rows the table may hold (guards every appending call)
MaxBatch == 2   \* rows of one batch (DataFrame) handed to update / insert
MaxAsOf == 2    \* asof dates an engine may be constructed with: 1..MaxAsOf

\* ------------------------------------------------------- program constants
maxto == 9      \* default '2199-12-31', later than every asof of the model
nan == 0 - 1    \* float('nan'): what max() of a column without rows returns

Keys == {"k1", "k2"}
Vals == {"1", "11"}

lookupatts == <<"k">>

\* The (type1atts, type2atts) pairs an engine is constructed with.
Configs == { << <<>>, <<"a", "b">> >>,
             << <<"a">>, <<"b">> >>,
             << <<"a", "b">>, <<>> >> }

\* Two more pairs __init__ accepts (lines 88-91 ask for lists, nothing else):
\* both lists empty, and an attribute in both lists.
UncheckedConfigs == { << <<>>, <<>> >>,
                      << <<"a">>, <<"a", "b">> >> }

VARIABLES
    stored,                 \* name in connection: the store has the table
    table,                  \* connection[name]: the stored rows, in order
    type1atts, type2atts,   \* self.type1atts, self.type2atts
    asof,                   \* self.asof
    exists,                 \* self.exists
    maxid,                  \* self.__maxid
    currentindex,           \* self.__currentindex: <<[k, scd_hash], ...>>
    new_count,              \* self._new_count
    type1_modified_count,   \* self._type1_modified_count
    type2_modified_count,   \* self._type2_modified_count
    last                    \* history: the call made last

vars == <<stored, table, type1atts, type2atts, asof, exists, maxid, currentindex,
          new_count, type1_modified_count, type2_modified_count,
          last>>

\* The live engine's fields that update and insert read or write.
self == [exists |-> exists, maxid |-> maxid,
         currentindex |-> currentindex, asof |-> asof]

\* ------------------------------------------------------------- batches
BatchRows == { r \in [k : Keys, a : Vals, b : Vals] : r.k = "k2" => r.b = "1" }

Batches == UNION { [1..n -> BatchRows] : n \in 1..MaxBatch }

\* ------------------------------------------------------------- helpers
RECURSIVE SeqMax(_)
SeqMax(s) ==
    IF s = <<>> THEN 0
    ELSE LET m == SeqMax(Tail(s)) IN IF Head(s) > m THEN Head(s) ELSE m

\* self.attributes = lookupatts + type1atts + type2atts
attributes == lookupatts \o type1atts \o type2atts

\* m.update(str(row[att]).encode()) for att in self.attributes
RECURSIVE digest_input(_, _)
digest_input(row, atts) ==
    IF atts = <<>> THEN ""
    ELSE row[Head(atts)] \o digest_input(row, Tail(atts))

\* _compute_hash: sha1 over the concatenated string forms
_compute_hash(row) == digest_input(row, attributes)

\* _build_condvars: {'_' + att: row[att] for att in self.lookupatts}
_build_condvars(row) == [i \in 1..Len(lookupatts) |-> row[lookupatts[i]]]

\* allkeyslookupcondition: (att == _att) & ... over the lookup attributes
allkeyslookupcondition(tablerow, condvars) ==
    \A i \in 1..Len(lookupatts) : tablerow[lookupatts[i]] = condvars[i]

\* currentkeylookupcondition: allkeyslookupcondition & (scd_current == True)
currentkeylookupcondition(tablerow, condvars) ==
    allkeyslookupcondition(tablerow, condvars) /\ tablerow.scd_current = TRUE

\* _get_current_indexes: select where scd_current=True, columns lookup + hash
_get_current_indexes(tbl) ==
    LET cur == SelectSeq(tbl, LAMBDA r : r.scd_current = TRUE)
    IN  [i \in 1..Len(cur) |-> [k |-> cur[i].k, scd_hash |-> cur[i].scd_hash]]

\* A constructor that starts the allocator at 0 whatever the table holds.
seed_maxid_zero(tbl) == 0

\* __init__: self.__maxid = self.connection[self.name][self.key].max()
\* (pandas: max() of a column without rows is nan)
seed_maxid(tbl) ==
    IF tbl = <<>> THEN nan
    ELSE SeqMax([i \in 1..Len(tbl) |-> tbl[i].scd_id])

\* _getnextid, called n times on an allocator that stands at mid:
\* self.__maxid += 1 (nan + 1 is nan)
_getnextid(mid, n) == IF mid = nan THEN nan ELSE mid + n

\* insert: the rows appended for DataFrame df by an engine whose allocator
\* stands at mid (_getnextid pre-increments, once per row, in row order)
insert_rows(df, mid, asofdate) ==
    [i \in 1..Len(df) |->
        [k |-> df[i].k, a |-> df[i].a, b |-> df[i].b,
         scd_id |-> _getnextid(mid, i),
         scd_valid_from |-> asofdate,
         scd_valid_to |-> maxto,
         scd_current |-> TRUE,
         scd_hash |-> _compute_hash(df[i])]]

\* insert, line 225: connection.append(name, df, ...) raises when df brings a
\* float nan scd_id to the stored integer column, and appends nothing.
append_raises(rows) == \E i \in 1..Len(rows) : rows[i].scd_id = nan

\* insert, line 225: the table after connection.append(name, df, ...)
append(tbl, rows) == IF append_raises(rows) THEN tbl ELSE tbl \o rows

\* __init__, lines 108-130: the fields of an engine constructed with asof = d
\* over a store that has the table (instore) with the rows tbl, or has not
construct(instore, tbl, d) ==
    [exists |-> instore,
     maxid |-> IF instore THEN seed_maxid(tbl) ELSE 0,
     currentindex |-> IF instore THEN _get_current_indexes(tbl) ELSE <<>>,
     asof |-> d]

\* A first engine has been constructed, with one of the pairs cfgs, on a store
\* that has the table without rows or has not (instore, drawn from stores).
FirstEngine(cfgs, stores) ==
    /\ stored \in stores
    /\ table = <<>>
    /\ \E c \in cfgs : type1atts = c[1] /\ type2atts = c[2]
    /\ \E d \in 1..MaxAsOf :
         /\ asof = construct(stored, <<>>, d).asof
         /\ exists = construct(stored, <<>>, d).exists
         /\ maxid = construct(stored, <<>>, d).maxid
         /\ currentindex = construct(stored, <<>>, d).currentindex
    /\ new_count = 0
    /\ type1_modified_count = 0
    /\ type2_modified_count = 0
    /\ last = "init"

\* The store holds no dimension yet and a first engine has been constructed.
Init == FirstEngine(Configs, {FALSE})

\* SlowlyChangingDimension(connection, name, lookupatts, type1atts, type2atts,
\* asof=d): a new engine over the persisted table replaces the live one.
Construct ==
    \E d \in 1..MaxAsOf :
      \E e \in {construct(stored, table, d)} :
        /\ asof' = e.asof
        /\ exists' = e.exists
        /\ maxid' = e.maxid
        /\ currentindex' = e.currentindex
        /\ new_count' = 0
        /\ type1_modified_count' = 0
        /\ type2_modified_count' = 0
        /\ last' = "construct"
        /\ UNCHANGED <<stored, table, type1atts, type2atts>>

\* update, lines 192-195 / 204-207: df.merge(self.__currentindex) on the lookup
\* attributes (inner join, one output row per matching index entry), keeping
\* the rows whose hash differs from the indexed one; rows stay in batch order.
RECURSIVE modified_rows(_, _)
modified_rows(df, index) ==
    IF df = <<>> THEN <<>>
    ELSE LET r == Head(df)
             hits == SelectSeq(index, LAMBDA e :
                         e.k = r.k /\ e.scd_hash # _compute_hash(r))
         IN  [j \in 1..Len(hits) |-> r] \o modified_rows(Tail(df), index)

\* update, line 184: df.loc[~df.index.isin(self.__currentindex.index)]
new_rows_of(df, index) ==
    SelectSeq(df, LAMBDA r : ~ \E j \in 1..Len(index) : index[j].k = r.k)

\* __perform_type1_updates, lines 249-250: tablerows[type1att][:] = rowdata[..]
RECURSIVE set_type1atts(_, _, _)
set_type1atts(tablerow, atts, rowdata) ==
    IF atts = <<>> THEN tablerow
    ELSE set_type1atts([tablerow EXCEPT ![Head(atts)] = rowdata[Head(atts)]],
                       Tail(atts), rowdata)

\* __perform_type1_updates, lines 253-254: the hash written to every version
type1_hash(tablerow, rowdata) == _compute_hash(rowdata)

\* A Type-1 iteration that rewrites every stored row, whatever its key.
type1_update_key_all(tbl, rowdata) ==
    [i \in 1..Len(tbl) |->
        [set_type1atts(tbl[i], type1atts, rowdata)
            EXCEPT !.scd_hash = type1_hash(tbl[i], rowdata)]]

\* __perform_type1_updates, one iteration of the loop over the modified rows:
\* every stored row of the key gets the incoming Type-1 values and the hash.
type1_update_key(tbl, rowdata) ==
    [i \in 1..Len(tbl) |->
        IF allkeyslookupcondition(tbl[i], _build_condvars(rowdata))
        THEN [set_type1atts(tbl[i], type1atts, rowdata)
                EXCEPT !.scd_hash = type1_hash(tbl[i], rowdata)]
        ELSE tbl[i]]

\* __perform_type1_updates: the loop, in the order of the modified rows
RECURSIVE __perform_type1_updates(_, _)
__perform_type1_updates(tbl, modified) ==
    IF modified = <<>> THEN tbl
    ELSE __perform_type1_updates(type1_update_key(tbl, Head(modified)),
                                 Tail(modified))

\* A Type-2 step that removes the current version(s) of the key from the
\* table instead of retiring them.
expire_key_remove(tbl, rowdata, asofdate) ==
    SelectSeq(tbl, LAMBDA r :
        ~currentkeylookupcondition(r, _build_condvars(rowdata)))

\* A Type-2 step that marks the current version(s) of the key as not current
\* and leaves their scd_valid_to as it is.
expire_key_no_date(tbl, rowdata, asofdate) ==
    [i \in 1..Len(tbl) |->
        IF currentkeylookupcondition(tbl[i], _build_condvars(rowdata))
        THEN [tbl[i] EXCEPT !.scd_current = FALSE]
        ELSE tbl[i]]

\* __track_type2_history, lines 283-295: expire the current version(s) of the key
expire_key(tbl, rowdata, asofdate) ==
    [i \in 1..Len(tbl) |->
        IF currentkeylookupcondition(tbl[i], _build_condvars(rowdata))
        THEN [tbl[i] EXCEPT !.scd_valid_to = asofdate, !.scd_current = FALSE]
        ELSE tbl[i]]

\* __track_type2_history, lines 279-295: the loop over the modified rows
RECURSIVE expire_all(_, _, _)
expire_all(tbl, modified, asofdate) ==
    IF modified = <<>> THEN tbl
    ELSE expire_all(expire_key(tbl, Head(modified), asofdate),
                    Tail(modified), asofdate)

\* __track_type2_history: expire every modified key, then insert(modified)
__track_type2_history(tbl, modified, mid, asofdate) ==
    append(expire_all(tbl, modified, asofdate),
           insert_rows(modified, mid, asofdate))

\* __track_type2_history, lines 278-302: the table after each of its writes,
\* one modify_coordinates per modified row (295) and then the append of
\* insert(modified) (302)
type2_states(tbl, modified, mid, asofdate) ==
    [i \in 1..(Len(modified) + 1) |->
        IF i <= Len(modified)
        THEN expire_all(tbl, SubSeq(modified, 1, i), asofdate)
        ELSE __track_type2_history(tbl, modified, mid, asofdate)]

\* An update that runs the Type-1 step, then the Type-2 step, and appends the
\* new members last.
update_new_last(e, tbl, df) ==
    IF ~e.exists
    THEN [table |-> append(tbl, insert_rows(df, e.maxid, e.asof)),
          maxid |-> _getnextid(e.maxid, Len(df)),
          currentindex |-> e.currentindex,
          type2 |-> [table |-> tbl, modified |-> <<>>, maxid |-> e.maxid]]
    ELSE LET new == new_rows_of(df, e.currentindex)
             mod1 == IF type1atts # <<>>
                     THEN modified_rows(df, e.currentindex) ELSE <<>>
             t1 == __perform_type1_updates(tbl, mod1)
             idx1 == IF mod1 # <<>> THEN _get_current_indexes(t1)
                     ELSE e.currentindex
             mod2 == IF type2atts # <<>>
                     THEN modified_rows(df, idx1) ELSE <<>>
             t2 == IF mod2 # <<>>
                   THEN __track_type2_history(t1, mod2, e.maxid, e.asof)
                   ELSE t1
             m2 == _getnextid(e.maxid, Len(mod2))
         IN  [table |-> append(t2, insert_rows(new, m2, e.asof)),
              maxid |-> _getnextid(m2, Len(new)),
              currentindex |-> idx1,
              type2 |-> [table |-> t1, modified |-> mod2, maxid |-> e.maxid]]

\* update(df) on the engine e over the persisted table tbl: the table, the
\* allocator and the index the call leaves behind.
update(e, tbl, df) ==
    IF ~e.exists
    THEN \* first load: insert(df.copy())
         [table |-> append(tbl, insert_rows(df, e.maxid, e.asof)),
          maxid |-> _getnextid(e.maxid, Len(df)),
          currentindex |-> e.currentindex,
          type2 |-> [table |-> tbl, modified |-> <<>>, maxid |-> e.maxid]]
    ELSE LET new == new_rows_of(df, e.currentindex)
             \* insert(new) when new is not empty
             t0 == append(tbl, insert_rows(new, e.maxid, e.asof))
             m0 == _getnextid(e.maxid, Len(new))
             \* Type-1 step, with _load_cache() at its end
             mod1 == IF type1atts # <<>>
                     THEN modified_rows(df, e.currentindex) ELSE <<>>
             t1 == __perform_type1_updates(t0, mod1)
             idx1 == IF mod1 # <<>> THEN _get_current_indexes(t1)
                     ELSE e.currentindex
             \* Type-2 step, against the index as the Type-1 step left it
             mod2 == IF type2atts # <<>>
                     THEN modified_rows(df, idx1) ELSE <<>>
             t2 == IF mod2 # <<>>
                   THEN __track_type2_history(t1, mod2, m0, e.asof) ELSE t1
         IN  IF append_raises(insert_rows(new, e.maxid, e.asof))
             THEN \* the exception of insert(new) ends the call
                  [table |-> tbl, maxid |-> m0, currentindex |-> e.currentindex,
                   type2 |-> [table |-> tbl, modified |-> <<>>, maxid |-> m0]]
             ELSE \* type2: what __track_type2_history was called on, if it was
                  [table |-> t2,
                   maxid |-> _getnextid(m0, Len(mod2)),
                   currentindex |-> idx1,
                   type2 |-> [table |-> t1, modified |-> mod2, maxid |-> m0]]

\* An update that ends by reading again whether the store has the table and
\* by loading the index from it.
UpdateReloading ==
    \E df \in Batches :
      \E res \in {update(self, table, df)} :
        /\ Len(res.table) <= MaxRows
        /\ table' = res.table
        /\ stored' = (stored \/ res.table # <<>>)
        /\ maxid' = res.maxid
        /\ exists' = stored'
        /\ currentindex' = IF stored' THEN _get_current_indexes(table')
                                       ELSE res.currentindex
        /\ last' = "update"
        /\ UNCHANGED <<type1atts, type2atts, asof, new_count,
                       type1_modified_count, type2_modified_count>>

\* dim.update(df)
Update ==
    \E df \in Batches :
      \E res \in {update(self, table, df)} :
        /\ Len(res.table) <= MaxRows
        /\ table' = res.table
        /\ stored' = (stored \/ res.table # <<>>)
        /\ maxid' = res.maxid
        /\ currentindex' = res.currentindex
        /\ last' = "update"
        /\ UNCHANGED <<type1atts, type2atts, asof, exists, new_count,
                       type1_modified_count, type2_modified_count>>

\* dim.insert(df): the low-level append, called directly
Insert ==
    \E df \in [1..1 -> BatchRows] :
        /\ Len(table) + Len(df) <= MaxRows
        /\ table' = append(table, insert_rows(df, maxid, asof))
        /\ stored' = (stored \/ table' # <<>>)
        /\ maxid' = _getnextid(maxid, Len(df))
        /\ last' = "insert"
        /\ UNCHANGED <<type1atts, type2atts, asof, exists, currentindex,
                       new_count, type1_modified_count, type2_modified_count>>

\* Python's None
None == "None"

\* lookup(tablerow): return None
lookup(tablerow) == None

\* dim.lookup(tablerow): the call reads nothing and writes nothing
Lookup ==
    \E tablerow \in BatchRows :
        /\ lookup(tablerow) = None
        /\ last' = "lookup"
        /\ UNCHANGED <<stored, table, type1atts, type2atts, asof, exists,
                       maxid, currentindex, new_count, type1_modified_count,
                       type2_modified_count>>

Next == Construct \/ Update

Spec == Init /\ [][Next]_vars

\* The same engine, whose callers also use the low-level insert directly.
NextInsert == Construct \/ Update \/ Insert

SpecInsert == Init /\ [][NextInsert]_vars

\* The store an engine is first constructed on either lacks the table or holds
\* it without rows (created beforehand, as the repository's tests do).
InitStore == FirstEngine(Configs, BOOLEAN)

SpecStore == InitStore /\ [][Next]_vars

\* Engines constructed with any pair of lists the constructor accepts.
InitUnchecked == FirstEngine(Configs \cup UncheckedConfigs, {FALSE})

SpecUnchecked == InitUnchecked /\ [][Next]_vars

\* The same engine, whose callers also look members up.
NextLookup == Construct \/ Update \/ Lookup

SpecLookup == Init /\ [][NextLookup]_vars

\* ------------------------------------------------------------------------
\* Vocabulary of the properties
\* ------------------------------------------------------------------------

\* This step is the call update(df) on the live engine.
IsUpdate(df) ==
    /\ last' = "update"
    /\ table' = update(self, table, df).table
    /\ maxid' = update(self, table, df).maxid
    /\ currentindex' = update(self, table, df).currentindex
    /\ UNCHANGED <<asof, exists>>

\* The positions of tbl that hold a row of natural key k
RowsOf(tbl, k) == { i \in 1..Len(tbl) : tbl[i].k = k }

\* The positions of tbl that hold a current row of natural key k
CurrentOf(tbl, k) == { i \in RowsOf(tbl, k) : tbl[i].scd_current }

\* The rows of the batch have pairwise distinct natural keys.
DistinctKeys(df) ==
    \A i, j \in 1..Len(df) : df[i].k = df[j].k => i = j

\* C1 -- Single current per key: every natural key present in the table has
\* exactly one stored row with scd_current = TRUE.
SingleCurrentPerKey ==
    \A k \in Keys :
        RowsOf(table, k) # {} => Cardinality(CurrentOf(table, k)) = 1

\* C2 -- Idempotence on one engine: after a call update(df), the same call
\* on the same engine once more leaves the table as the first call left it.
IdempotentOnOneEngine ==
    [][\A df \in Batches :
         IsUpdate(df) => update(self', table', df).table = table']_vars

\* C3 -- Replay through a fresh engine: after a batch with pairwise distinct
\* natural keys has been loaded, an engine constructed on the persisted table
\* and given the same batch leaves every stored row as it was.
ReplayThroughFreshEngine ==
    [][\A df \in Batches :
         (IsUpdate(df) /\ DistinctKeys(df)) =>
            \A d \in 1..MaxAsOf :
                update(construct(stored', table', d), table', df).table
                    = table']_vars

\* The scd_id values of the table are pairwise distinct.
DistinctIds(tbl) ==
    \A i, j \in 1..Len(tbl) : tbl[i].scd_id = tbl[j].scd_id => i = j

\* C4 -- Key monotonicity: in every table state the scd_id values are pairwise
\* distinct, and every row a call appends gets an scd_id strictly greater than
\* every scd_id persisted before that call.
KeyMonotonicity ==
    [][/\ DistinctIds(table')
       /\ Len(table') >= Len(table)
       /\ \A j \in (Len(table) + 1)..Len(table') :
            \A i \in 1..Len(table) : table'[j].scd_id > table[i].scd_id]_vars

\* C4 witness: an engine constructed over persisted rows has appended a row
\* next to rows that an earlier engine (another asof) had stored.
KeyMonotonicityWitness ==
    /\ exists
    /\ last \in {"update", "insert"}
    /\ \E i, j \in 1..Len(table) :
         /\ i < j
         /\ table[i].scd_valid_from # table[j].scd_valid_from
         /\ table[j].scd_valid_from = asof
         /\ table[j].scd_id = maxid

\* Row n is the only row of the batch with its natural key.
UniqueIn(df, n) ==
    \A j \in 1..Len(df) : df[j].k = df[n].k => j = n

\* The batch row r and the stored row c differ in one of the attributes atts.
DiffersIn(r, c, atts) ==
    \E x \in 1..Len(atts) : r[atts[x]] # c[atts[x]]

\* The engine's index is the one a constructor would load from the table.
Coherent ==
    /\ exists = stored
    /\ currentindex = _get_current_indexes(table)

\* The positions of the rows a step has appended
Appended == (Len(table) + 1)..Len(table')

\* In table', position j holds the new current version made from batch row r.
IsNewVersion(j, r) ==
    /\ table'[j].k = r.k /\ table'[j].a = r.a /\ table'[j].b = r.b
    /\ \A i \in 1..Len(table) : table'[j].scd_id > table[i].scd_id
    /\ table'[j].scd_valid_from = asof
    /\ table'[j].scd_valid_to = maxto
    /\ table'[j].scd_current = TRUE

\* In table', position c holds the version retired by this step.
IsClosed(c) ==
    /\ table'[c].scd_valid_to = asof
    /\ table'[c].scd_current = FALSE

\* C5 -- Type-2 close-then-insert: a batch row for an existing natural key that
\* differs from the key's current version in a Type-2 attribute retires that
\* version (scd_valid_to = asof, scd_current = FALSE) and appends exactly one
\* row for the key: the incoming values, a fresh scd_id, scd_valid_from = asof,
\* scd_valid_to = maxto, scd_current = TRUE.  Stated for the plainest case: the
\* engine's index is the table's, the key occurs once in the batch and the
\* row's fingerprint is not the stored one.
TypeTwoCloseThenInsert ==
    [][\A df \in Batches : (IsUpdate(df) /\ Coherent) =>
         \A n \in 1..Len(df) : \A c \in CurrentOf(table, df[n].k) :
            ( /\ CurrentOf(table, df[n].k) = {c}
              /\ UniqueIn(df, n)
              /\ _compute_hash(df[n]) # table[c].scd_hash
              /\ DiffersIn(df[n], table[c], type2atts) )
            => /\ Len(table') > Len(table)
               /\ IsClosed(c)
               /\ \E j \in Appended :
                    /\ IsNewVersion(j, df[n])
                    /\ \A j2 \in Appended : table'[j2].k = df[n].k => j2 = j
      ]_vars

\* The control fields of the stored rows of key k are what they were.
ControlFieldsKept(k) ==
    \A i \in RowsOf(table, k) :
        /\ table'[i].scd_id = table[i].scd_id
        /\ table'[i].scd_valid_from = table[i].scd_valid_from
        /\ table'[i].scd_valid_to = table[i].scd_valid_to
        /\ table'[i].scd_current = table[i].scd_current

\* In table', every stored version of r's key carries r's Type-1 values.
Type1Overwritten(r) ==
    \A i \in RowsOf(table, r.k) :
        \A x \in 1..Len(type1atts) : table'[i][type1atts[x]] = r[type1atts[x]]

\* C6 -- Type-1 in-place overwrite: a batch row for an existing natural key
\* that differs from the key's current version only in Type-1 attributes leaves
\* the row count unchanged (no row is appended for the key), sets the Type-1
\* columns of every stored version of the key to the incoming values, and
\* changes no control field of the key's rows.
\* Stated for a key that occurs once in the batch, with a fingerprint that is
\* not the stored one.
TypeOneInPlace ==
    [][\A df \in Batches : IsUpdate(df) =>
         \A n \in 1..Len(df) : \A c \in CurrentOf(table, df[n].k) :
            ( /\ CurrentOf(table, df[n].k) = {c}
              /\ UniqueIn(df, n)
              /\ _compute_hash(df[n]) # table[c].scd_hash
              /\ DiffersIn(df[n], table[c], type1atts)
              /\ ~DiffersIn(df[n], table[c], type2atts) )
            => /\ Len(table') >= Len(table)
               /\ \A j \in Appended : table'[j].k # df[n].k
               /\ Type1Overwritten(df[n])
               /\ ControlFieldsKept(df[n].k)
      ]_vars

\* C7 -- BOTH verdict: a batch row for an existing natural key that differs
\* from the key's current version in a Type-1 and in a Type-2 attribute gets
\* the Type-1 path (Type-1 columns overwritten on every existing version) and
\* then the Type-2 path (current version closed, new current version
\* appended): the table gains exactly one row for the key.  Stated for the
\* plainest case, as C5.
BothVerdict ==
    [][\A df \in Batches : (IsUpdate(df) /\ Coherent) =>
         \A n \in 1..Len(df) : \A c \in CurrentOf(table, df[n].k) :
            ( /\ CurrentOf(table, df[n].k) = {c}
              /\ UniqueIn(df, n)
              /\ _compute_hash(df[n]) # table[c].scd_hash
              /\ DiffersIn(df[n], table[c], type1atts)
              /\ DiffersIn(df[n], table[c], type2atts) )
            => /\ Len(table') > Len(table)
               /\ Type1Overwritten(df[n])
               /\ IsClosed(c)
               /\ Cardinality({ j \in Appended : table'[j].k = df[n].k }) = 1
               /\ \E j \in Appended : IsNewVersion(j, df[n])
      ]_vars

\* C8 -- Hash integrity: the scd_hash of every stored row is the fingerprint
\* of that row's own lookup, Type-1 and Type-2 values.
HashIntegrity ==
    \A i \in 1..Len(table) : table[i].scd_hash = _compute_hash(table[i])

\* The batch rows that survive the tie-break: the last occurrence of each key
Survivors(df) ==
    { n \in 1..Len(df) : \A j \in (n + 1)..Len(df) : df[j].k # df[n].k }

\* Verdict NEW: the row's natural key is not in the index.
IsNEW(r) == ~ \E j \in 1..Len(currentindex) : currentindex[j].k = r.k

\* The row's fingerprint differs from the indexed hash of its key.
IsChanged(r) ==
    \E j \in 1..Len(currentindex) :
        currentindex[j].k = r.k /\ currentindex[j].scd_hash # _compute_hash(r)

\* Verdict T1_ONLY or BOTH: changed, and some Type-1 value is not the current one.
IsT1(r) ==
    /\ IsChanged(r)
    /\ \E c \in CurrentOf(table, r.k) : DiffersIn(r, table[c], type1atts)

\* Verdict T2_ONLY or BOTH: changed, and some Type-2 value is not the current one.
IsT2(r) ==
    /\ IsChanged(r)
    /\ \E c \in CurrentOf(table, r.k) : DiffersIn(r, table[c], type2atts)

\* C9 -- Counter correctness: an update call grows new_rows by the number of
\* batch rows classified NEW, updated_type1_rows by the number classified
\* T1_ONLY or BOTH and updated_type2_rows by the number classified T2_ONLY or
\* BOTH.
CounterCorrectness ==
    [][\A df \in Batches : IsUpdate(df) =>
         /\ new_count' = new_count
               + Cardinality({ n \in Survivors(df) : IsNEW(df[n]) })
         /\ type1_modified_count' = type1_modified_count
               + Cardinality({ n \in Survivors(df) : IsT1(df[n]) })
         /\ type2_modified_count' = type2_modified_count
               + Cardinality({ n \in Survivors(df) : IsT2(df[n]) })
      ]_vars

\* C10 -- Within-batch tie-break: when a natural key occurs in several rows of
\* one batch only the last occurrence takes effect, so one update call appends
\* at most one row per natural key, and that row carries the values of the
\* key's last occurrence.
WithinBatchTieBreak ==
    [][\A df \in Batches : IsUpdate(df) =>
         /\ Len(table') >= Len(table)
         /\ \A k \in Keys :
              Cardinality({ j \in Appended : table'[j].k = k }) <= 1
         /\ \A j \in Appended : \E n \in Survivors(df) :
              /\ table'[j].k = df[n].k
              /\ table'[j].a = df[n].a
              /\ table'[j].b = df[n].b
      ]_vars

\* The stored row carries a column of that name.
HasColumn(row, col) == col \in DOMAIN row

\* The positions of key k's rows, as the sequence of their stored versions in
\* storage order: the n-th stored version of k sits at KeyChain(tbl, k)[n].
KeyChain(tbl, k) ==
    LET pos == SelectSeq([i \in 1..Len(tbl) |-> i], LAMBDA i : tbl[i].k = k)
    IN  pos

\* C11 -- Version numbering: every stored row carries an scd_version, and for
\* each natural key the scd_version values of its stored rows are exactly
\* 1, 2, ..., n without gap or repeat: the first stored row of a key (its
\* birth) has version 1 and each later one (a Type-2 transition) the version
\* of the row before it plus 1.
VersionNumbering ==
    \A k \in Keys :
        \A n \in 1..Len(KeyChain(table, k)) :
            /\ HasColumn(table[KeyChain(table, k)[n]], "scd_version")
            /\ table[KeyChain(table, k)[n]].scd_version = n

\* C12 -- Chain contiguity: for each natural key, taking its stored versions in
\* order, scd_valid_to of each version is scd_valid_from of the next one, and
\* only the last version has scd_valid_to = maxto and scd_current = TRUE.
ChainContiguity ==
    \A k \in Keys :
        LET chain == KeyChain(table, k)
        IN  \A n \in 1..Len(chain) :
              IF n < Len(chain)
              THEN /\ table[chain[n]].scd_valid_to
                        = table[chain[n + 1]].scd_valid_from
                   /\ table[chain[n]].scd_valid_to # maxto
                   /\ table[chain[n]].scd_current = FALSE
              ELSE /\ table[chain[n]].scd_valid_to = maxto
                   /\ table[chain[n]].scd_current = TRUE

\* max(scd_id) over the stored rows, 0 for a table without rows
MaxScdId(tbl) == SeqMax([i \in 1..Len(tbl) |-> tbl[i].scd_id])

\* C13 -- Surrogate increment: over an update call max(scd_id) does not
\* decrease, and it grows by the number of batch rows classified NEW plus the
\* number classified T2_ONLY or BOTH.  Stated for the plainest case: the
\* engine's index is the table's, every stored key has one current row and the
\* batch has pairwise distinct natural keys.
SurrogateIncrement ==
    [][\A df \in Batches :
         (IsUpdate(df) /\ Coherent /\ SingleCurrentPerKey /\ DistinctKeys(df))
         => /\ MaxScdId(table') >= MaxScdId(table)
            /\ MaxScdId(table') - MaxScdId(table)
                 = Cardinality({ n \in 1..Len(df) : IsNEW(df[n]) })
                     + Cardinality({ n \in 1..Len(df) : IsT2(df[n]) })
      ]_vars

\* C14 -- Allocator seeding: an engine constructed over a persisted dimension
\* starts its allocator at max(scd_id) of the table, or at 0 when the table
\* holds no rows (absent, or existing but empty), and the rows it then appends
\* get the next values in turn: persisted max + 1 (1 on an empty dimension),
\* + 2, ...
AllocatorSeeding ==
    [][/\ last = "init" => maxid = MaxScdId(table)
       /\ last' = "construct" => maxid' = MaxScdId(table')
       /\ last' = "update" =>
            \A j \in Appended : table'[j].scd_id = maxid + (j - Len(table))
      ]_vars

\* In table', position j holds batch row r as insert stores a first version.
IsBorn(j, r) ==
    /\ table'[j].k = r.k /\ table'[j].a = r.a /\ table'[j].b = r.b
    /\ table'[j].scd_valid_from = asof
    /\ table'[j].scd_valid_to = maxto
    /\ table'[j].scd_current = TRUE
    /\ table'[j].scd_hash = _compute_hash(r)

\* C15 -- Birth of a member: a batch row whose natural key has no stored row
\* makes update append exactly one row for the key, with the incoming
\* attribute values, scd_version = 1, scd_valid_from = asof, scd_valid_to =
\* maxto, scd_current = TRUE and scd_hash = the fingerprint of the row.  Stated
\* for a key that occurs once in the batch.
BirthOfMember ==
    [][\A df \in Batches : IsUpdate(df) =>
         \A n \in 1..Len(df) :
            (RowsOf(table, df[n].k) = {} /\ UniqueIn(df, n))
            => \E j \in Appended :
                 /\ IsBorn(j, df[n])
                 /\ \A j2 \in Appended : table'[j2].k = df[n].k => j2 = j
                 /\ HasColumn(table'[j], "scd_version")
                 /\ table'[j].scd_version = 1
      ]_vars

\* C16 -- lookup: for an input whose natural key matches a stored member,
\* lookup returns the member's current version row (the one with scd_current
\* = TRUE); it returns the absent value only when no member has that natural
\* key; and it changes neither the table, nor the index, nor the allocator,
\* nor the counters.
LookupReturnsCurrent ==
    [][last' = "lookup" =>
         /\ \A r \in BatchRows :
              /\ RowsOf(table, r.k) # {} =>
                    /\ lookup(r) # None
                    /\ \E c \in CurrentOf(table, r.k) : lookup(r) = table[c]
              /\ lookup(r) = None => RowsOf(table, r.k) = {}
         /\ UNCHANGED <<table, currentindex, maxid, new_count,
                        type1_modified_count, type2_modified_count>>
      ]_vars

\* The attributes the two lists have in common
Shared(t1, t2) ==
    { t1[i] : i \in 1..Len(t1) } \cap { t2[i] : i \in 1..Len(t2) }

\* C17 -- Construction fails when type1atts and type2atts share an attribute
\* and when both are empty: no engine is ever constructed with such lists.
ConstructionValidated ==
    [][last' = "construct" =>
         /\ Shared(type1atts', type2atts') = {}
         /\ ~(type1atts' = <<>> /\ type2atts' = <<>>)
      ]_vars

\* The entries of an index, as a set
Entries(index) == { index[i] : i \in 1..Len(index) }

\* C18 -- Index coherence: after every update call the engine's index is the
\* projection of the persisted table onto its rows with scd_current = TRUE:
\* the same natural keys, each with the stored scd_hash of its current row,
\* keys born in the call and keys given a new version by it included.
IndexCoherence ==
    [][last' = "update" =>
         Entries(currentindex') = Entries(_get_current_indexes(table'))]_vars

\* The natural keys the engine's index holds when the call starts
IndexKeys == { currentindex[i].k : i \in 1..Len(currentindex) }

\* The call has retired a current row of key k.
Retired(k) == \E c \in CurrentOf(table, k) : table'[c].scd_current = FALSE

\* The call has appended a row for key k.
AppendedFor(k) == \E i \in Appended : table'[i].k = k

\* In table', position i comes before position j and got its scd_id earlier.
Before(i, j) == i < j /\ table'[i].scd_id < table'[j].scd_id

\* C19 -- Step ordering, as the claim has it: Type-1 overwrites, then the
\* Type-2 close-and-insert, then the appends of new members; so when one call
\* both gives a key of the index a new version (km is new to the index, kn has
\* its current row retired) the new version row is appended, and gets its
\* scd_id, before the new member's row.
StepOrdering ==
    [][last' = "update" =>
         \A km, kn \in Keys :
            ( /\ km \notin IndexKeys /\ AppendedFor(km)
              /\ kn \in IndexKeys /\ Retired(kn) )
            => \E j \in Appended :
                 /\ table'[j].k = kn
                 /\ \A i \in Appended : table'[i].k = km => Before(j, i)
      ]_vars

\* C19, amended -- the appends of new members come first, then the Type-1
\* overwrites, then the Type-2 close-and-insert; so in such a call the new
\* member's row is appended, and gets its scd_id, before every row the Type-2
\* step appends for the key it gives a new version.
NewMembersFirst ==
    [][last' = "update" =>
         \A km, kn \in Keys :
            ( /\ km \notin IndexKeys /\ AppendedFor(km)
              /\ kn \in IndexKeys /\ Retired(kn) )
            => \E i \in Appended :
                 /\ table'[i].k = km
                 /\ \A j \in Appended : table'[j].k = kn => Before(i, j)
      ]_vars

\* C19 witness: one update call has appended a new member's row and then the
\* new version of a key whose current row it retired.
NewMembersFirstWitness ==
    /\ last = "update"
    /\ Len(table) = 3
    /\ table[1].k = table[3].k /\ table[2].k # table[1].k
    /\ table[1].scd_current = FALSE /\ table[1].scd_valid_to = asof
    /\ table[1].scd_valid_from # asof
    /\ table[2].scd_valid_from = asof /\ table[2].scd_current = TRUE
    /\ table[3].scd_valid_from = asof /\ table[3].scd_current = TRUE
    /\ table[2].scd_id = 2 /\ table[3].scd_id = 3
    /\ maxid = 3
    /\ Entries(currentindex) = { [k |-> table[1].k, scd_hash |-> table[1].scd_hash] }

\* The number of current rows key k has in tbl
CurrentCount(tbl, k) == Cardinality(CurrentOf(tbl, k))

\* C20 -- Close before append: whatever batch the engine is given, in the
\* Type-2 step of the update the write that retires the current row of a key
\* (scd_current = FALSE, scd_valid_to = asof) comes before the append of the
\* key's new version: the append is the step's last write and finds no
\* current row of a key it is about; so in no storage state between the
\* step's writes does a key have two rows with scd_current = TRUE.
CloseBeforeAppend ==
    \A df \in Batches :
        LET call == update(self, table, df).type2
            s == type2_states(call.table, call.modified, call.maxid, asof)
            n == Len(call.modified)
        IN  n > 0 =>
              /\ \A x \in 1..n : CurrentOf(s[n], call.modified[x].k) = {}
              /\ Len(s[n + 1]) = Len(s[n]) + n
              /\ SubSeq(s[n + 1], 1, Len(s[n])) = s[n]
              /\ \A i \in 1..n : \A k \in Keys : CurrentCount(s[i], k) <= 1

\* The table update(df) of a new engine (asof = d) leaves, when it is
\* constructed on the persisted rows tbl
rerun(tbl, d, df) == update(construct(stored, tbl, d), tbl, df).table

\* Row c of tbl carries the values of a batch row for key k.
CarriesIncoming(tbl, c, df, k) ==
    \E n \in 1..Len(df) :
        df[n].k = k /\ tbl[c].a = df[n].a /\ tbl[c].b = df[n].b

\* C21 -- Recovery by rerun: when an update is cut in its Type-2 step after
\* the write that retired the current row of a key and before the append of
\* the new version, a new engine constructed on the persisted table (for the
\* same load: the same asof) and given the same batch leaves the key with
\* exactly one current row, which carries the incoming values and whose
\* scd_valid_from is the scd_valid_to of the retired row.
RecoveryByRerun ==
    \A df \in Batches :
        LET call == update(self, table, df).type2
            s == type2_states(call.table, call.modified, call.maxid, asof)
        IN  \A i \in 1..Len(call.modified) :
              LET k == call.modified[i].k
                  after == rerun(s[i], asof, df)
              IN  CurrentOf(call.table, k) # {} =>
                    /\ Cardinality(CurrentOf(after, k)) = 1
                    /\ \A c \in CurrentOf(after, k) :
                         /\ CarriesIncoming(after, c, df, k)
                         /\ \A r \in CurrentOf(call.table, k) :
                              after[c].scd_valid_from = s[i][r].scd_valid_to

\* The scd_id values stored in tbl
StoredIds(tbl) == { tbl[i].scd_id : i \in 1..Len(tbl) }

\* C22 -- No destruction: no update or insert call removes a row; over every
\* call the stored rows stay at their positions, the set of stored scd_id
\* values only grows, and the natural key, the scd_id and the scd_valid_from
\* of a stored row are what they were when it was appended.
NoDestruction ==
    [][/\ Len(table') >= Len(table)
       /\ StoredIds(table) \subseteq StoredIds(table')
       /\ \A i \in 1..Len(table) :
            /\ table'[i].k = table[i].k
            /\ table'[i].scd_id = table[i].scd_id
            /\ table'[i].scd_valid_from = table[i].scd_valid_from
      ]_vars

\* C22 witness: a call has rewritten a stored row (retired it, at a date that
\* is not the one it was appended at) and a later direct insert has appended
\* after it; the row is still stored, where it was.
NoDestructionWitness ==
    /\ last = "insert"
    /\ Len(table) = 3
    /\ table[1].scd_current = FALSE
    /\ table[1].scd_valid_to # table[1].scd_valid_from
    /\ table[1].scd_id = 1
    /\ table[3].scd_valid_from = asof

\* Verdict UNCHANGED: the key is in the index and the row's fingerprint is the
\* indexed hash of the key.
IsUNCHANGED(r) ==
    /\ ~IsNEW(r)
    /\ \A j \in 1..Len(currentindex) :
         currentindex[j].k = r.k => currentindex[j].scd_hash = _compute_hash(r)

\* C23 -- Frame of update: whatever else the batch holds, an update call
\* leaves every field of a stored row as it was when the row's natural key
\* does not occur in the batch, or when every batch row of that key is
\* UNCHANGED (its fingerprint is the indexed hash of the key).
FrameOfUpdate ==
    \A df \in Batches :
        LET after == update(self, table, df).table
        IN  /\ Len(after) >= Len(table)
            /\ \A i \in 1..Len(table) :
                 (\A n \in 1..Len(df) :
                     df[n].k = table[i].k => IsUNCHANGED(df[n]))
                 => after[i] = table[i]

\* The sub-batch m with its rows taken in the order p (a permutation of its
\* positions)
Reordered(m, p) == [i \in 1..Len(m) |-> m[p[i]]]

\* The order p moves natural keys only: the rows of one key keep their order.
KeyOrder(m, p) ==
    \A i, j \in 1..Len(m) :
        (i < j /\ m[p[i]].k = m[p[j]].k) => p[i] < p[j]

\* C24 -- Commutativity of the Type-1 step: whatever the stored table, for
\* every Type-1 sub-batch the table the step leaves is the same for every
\* order in which the sub-batch's natural keys are processed.
Type1Commutes ==
    \A m \in Batches :
        \A p \in Permutations(1..Len(m)) :
            KeyOrder(m, p) =>
                __perform_type1_updates(table, Reordered(m, p))
                    = __perform_type1_updates(table, m)

\* C24 witness: an update of an engine with Type-1 attributes has overwritten
\* rows of two natural keys that an earlier engine had stored, and a
\* sub-batch of two keys, in either order, would rewrite rows of both again.
Type1CommutesWitness ==
    /\ last = "update"
    /\ type1atts # <<>>
    /\ Coherent
    /\ \E i, j \in 1..Len(table) :
         /\ table[i].k # table[j].k
         /\ table[i].a = "11" /\ table[j].a = "11"
         /\ table[i].scd_valid_from # asof /\ table[j].scd_valid_from # asof
         /\ \E m \in Batches :
              /\ Len(m) = 2 /\ m[1].k = table[i].k /\ m[2].k = table[j].k
              /\ __perform_type1_updates(table, m)[i] # table[i]
              /\ __perform_type1_updates(table, m)[j] # table[j]
              /\ __perform_type1_updates(table, <<m[1]>>)[j] = table[j]

AsOfDates == (1..MaxAsOf) \cup {maxto}

\* The store holds no dimension yet and a first engine has been constructed,
\* with an asof date that is not later than maxto.
InitOrdered ==
    /\ stored = FALSE
    /\ table = <<>>
    /\ \E c \in Configs : type1atts = c[1] /\ type2atts = c[2]
    /\ \E d \in AsOfDates :
         /\ asof = construct(stored, <<>>, d).asof
         /\ exists = construct(stored, <<>>, d).exists
         /\ maxid = construct(stored, <<>>, d).maxid
         /\ currentindex = construct(stored, <<>>, d).currentindex
    /\ new_count = 0
    /\ type1_modified_count = 0
    /\ type2_modified_count = 0
    /\ last = "init"

\* SlowlyChangingDimension(..., asof=d) for the next load: the new engine's
\* asof is not earlier than the asof of the engine it replaces.
ConstructOrdered ==
    \E d \in AsOfDates :
      \E e \in {construct(stored, table, d)} :
        /\ d >= asof
        /\ asof' = e.asof
        /\ exists' = e.exists
        /\ maxid' = e.maxid
        /\ currentindex' = e.currentindex
        /\ new_count' = 0
        /\ type1_modified_count' = 0
        /\ type2_modified_count' = 0
        /\ last' = "construct"
        /\ UNCHANGED <<stored, table, type1atts, type2atts>>

\* Loads in date order: every engine's asof is at most maxto and successive
\* engines have non-decreasing asof dates.
NextOrdered == ConstructOrdered \/ Update

SpecOrdered == InitOrdered /\ [][NextOrdered]_vars

\* Every stored row has scd_valid_from <= scd_valid_to, and scd_valid_to =
\* maxto exactly when scd_current = TRUE.
WellFormed(tbl) ==
    \A i \in 1..Len(tbl) :
        /\ tbl[i].scd_valid_from <= tbl[i].scd_valid_to
        /\ (tbl[i].scd_valid_to = maxto) <=> (tbl[i].scd_current = TRUE)

\* C26 -- Well-formed intervals, as the claim has it: when every engine is
\* constructed with asof <= maxto and successive engines use non-decreasing
\* asof dates, every stored row has scd_valid_from <= scd_valid_to, and
\* scd_valid_to = maxto exactly on the rows with scd_current = TRUE.
WellFormedIntervals == WellFormed(table)

\* C26, amended -- the same, for engines constructed with asof < maxto: as
\* the dates do not decrease, every engine up to the live one had such a date
\* when the live one has.
WellFormedBeforeMaxto == asof < maxto => WellFormed(table)

\* C26 witness: with every asof before maxto, a later engine has retired, at
\* its own asof, a row that an earlier engine had appended, and has appended
\* the key's new version.
WellFormedBeforeMaxtoWitness ==
    /\ last = "update"
    /\ asof < maxto
    /\ \E i, j \in 1..Len(table) :
         /\ table[i].k = table[j].k
         /\ table[i].scd_current = FALSE
         /\ table[i].scd_valid_from < table[i].scd_valid_to
         /\ table[i].scd_valid_to = asof
         /\ table[j].scd_current = TRUE
         /\ table[j].scd_valid_from = asof
         /\ table[j].scd_valid_to = maxto
====
